---------------------------- MODULE Spec2Model ----------------------------
(***************************************************************************)
(* Caption scheduling and narration pipeline of DotMotion                  *)
(* (src/dotmotion.py, "SUBTITLES & MEDIA HELPERS" and "USER-DRIVEN         *)
(* NARRATION").                                                            *)
(*                                                                         *)
(* Times are integers counting milliseconds: 0.4 s is 400, 0.1 s is 100,    *)
(* 0.01 s is 10.  Sums, differences and comparisons are exact; the binary  *)
(* rounding of Python floats is not part of the model.                     *)
(* A caption is the tuple <<start, end, text>> of the code.                *)
(***************************************************************************)
EXTENDS Integers, Sequences, FiniteSets, TLC

(***************************************************************************)
(* Bounds of the model and the inputs drawn in Init.                       *)
(***************************************************************************)
MaxCaps == 2
MaxGap == 1

StartVals == {-500, 0, 500, 1100}
EndVals == {200, 400, 1000, 1500}
Texts == {"A", "B"}

Captions == StartVals \X EndVals \X Texts

RECURSIVE SeqsUpTo(_, _)
SeqsUpTo(S, n) ==
    IF n = 0 THEN {<<>>}
    ELSE LET shorter == SeqsUpTo(S, n - 1)
         IN  shorter \cup {Append(q, x) : q \in {r \in shorter : Len(r) = n - 1}, x \in S}

\* Three captions that push one another: overlap, equal starts, end before start.
CascadeCaptions == {<<0, 1000, "A">>, <<500, 1500, "B">>, <<500, 400, "A">>}
CascadeLists == {<<a, b, c>> : a \in CascadeCaptions, b \in CascadeCaptions, c \in CascadeCaptions}

CaptionLists == SeqsUpTo(Captions, MaxCaps) \cup CascadeLists
\* min_gap_s defaults to 0.1 s (src/dotmotion.py:1600); the gaps tried are its multiples.
DefaultMinGap == 100
Gaps == {g * DefaultMinGap : g \in 0..MaxGap}

Max(a, b) == IF a >= b THEN a ELSE b

(***************************************************************************)
(* sorted(captions, key=lambda x: x[0]): Python's sort is stable, an       *)
(* element goes behind every element whose key is <= its own.              *)
(***************************************************************************)
InsertByStartFirst(ordered, x) ==
    LET k == Cardinality({i \in 1..Len(ordered) : ordered[i][1] < x[1]})
    IN  SubSeq(ordered, 1, k) \o <<x>> \o SubSeq(ordered, k + 1, Len(ordered))

InsertByStart(ordered, x) ==
    LET k == Cardinality({i \in 1..Len(ordered) : ordered[i][1] <= x[1]})
    IN  SubSeq(ordered, 1, k) \o <<x>> \o SubSeq(ordered, k + 1, Len(ordered))

RECURSIVE sorted(_)
sorted(items) ==
    IF items = <<>> THEN <<>>
    ELSE InsertByStart(sorted(SubSeq(items, 1, Len(items) - 1)), items[Len(items)])

(***************************************************************************)
(* _schedule_non_overlapping, src/dotmotion.py:1575-1592.                  *)
(***************************************************************************)
MinDur == 400

\* One pass of the for loop: the caption emitted and the cursor after it.
schedule_step_no_gap(cap, current, min_gap_s) ==
    LET dur == Max(MinDur, cap[2] - cap[1])
        start == Max(cap[1], current)
        end == start + dur
    IN  [out |-> <<start, end, cap[3]>>, current |-> end]

schedule_step_no_floor(cap, current, min_gap_s) ==
    LET dur == cap[2] - cap[1]
        start == Max(cap[1], current)
        end == start + dur
    IN  [out |-> <<start, end, cap[3]>>, current |-> end + min_gap_s]

schedule_step_at_cursor(cap, current, min_gap_s) ==
    LET dur == Max(MinDur, cap[2] - cap[1])
        start == current
        end == start + dur
    IN  [out |-> <<start, end, cap[3]>>, current |-> end + min_gap_s]

schedule_step(cap, current, min_gap_s) ==
    LET s == cap[1]
        e == cap[2]
        t == cap[3]
        dur == Max(MinDur, e - s)
        start == Max(s, current)
        end == start + dur
    IN  [out |-> <<start, end, t>>, current |-> end + min_gap_s]

RECURSIVE schedule_loop(_, _, _, _)
schedule_loop(ordered, result, current, min_gap_s) ==
    IF ordered = <<>> THEN result
    ELSE LET step == schedule_step(Head(ordered), current, min_gap_s)
         IN  schedule_loop(Tail(ordered), Append(result, step.out), step.current, min_gap_s)

_schedule_non_overlapping(caps, min_gap_s) ==
    IF caps = <<>> THEN <<>>
    ELSE LET ordered == sorted(caps)
         IN  schedule_loop(ordered, <<>>, Max(0, ordered[1][1]), min_gap_s)

(***************************************************************************)
(* SubtitleTrack.add_caption, src/dotmotion.py:1206-1209.                  *)
(***************************************************************************)
MinCue == 10

add_caption(items, start_s, end_s, text) ==
    LET e == IF end_s <= start_s THEN start_s + MinCue ELSE end_s
    IN  Append(items, <<start_s, e, text>>)

RECURSIVE add_captions(_, _)
add_captions(items, ordered) ==
    IF ordered = <<>> THEN items
    ELSE add_captions(add_caption(items, ordered[1][1], ordered[1][2], ordered[1][3]),
                      Tail(ordered))

(***************************************************************************)
(* SubtitleTrack._format_ts and to_srt, lines 1211-1226.  The time t is a   *)
(* binary double; the model names it by its number of milliseconds.  The    *)
(* whole part is taken exactly.  For the fraction the code truncates        *)
(* (t - int(t)) * 1000, and the double nearest to a decimal such as 2.4 has *)
(* a fraction just below 0.4, so that the product is 399.99... and int()    *)
(* gives 399.  TruncatedDown lists the times the model uses for which the   *)
(* expression, evaluated in Python, comes out one below the millisecond:    *)
(* 2.4, 2.4 + 0.01 and 3723.004.  A timestamp is <<hours, minutes,          *)
(* seconds, millis>>, the four numbers the f-string prints zero-padded.     *)
(***************************************************************************)
TruncatedDown == {2400, 2410, 3723004}

frac_millis(t) == IF t \in TruncatedDown THEN (t % 1000) - 1 ELSE t % 1000

_format_ts(t) ==
    <<t \div 3600000, (t % 3600000) \div 60000, (t % 60000) \div 1000, frac_millis(t)>>

cue(idx, item) ==
    [idx |-> idx, start |-> _format_ts(item[1]), end |-> _format_ts(item[2]),
     text |-> item[3]]

to_srt_unsorted(items) == [i \in 1..Len(items) |-> cue(i, items[i])]

to_srt(items) ==
    LET ordered_items == sorted(items)
    IN  [i \in 1..Len(ordered_items) |-> cue(i, ordered_items[i])]

(***************************************************************************)
(* PlaybackClock, lines 1232-1284, and display_text_safely, lines 573-605.  *)
(* A callable is Original (the scene's own play or wait) or the number of   *)
(* the clock whose wrapper it is; NoCallable is None.  A wrapper reads      *)
(* self._orig_play when it is called.  Whether the scene's own play or wait *)
(* raises is not decided by this code: orig_raises.                         *)
(***************************************************************************)
Original == 0
NoCallable == -1
NoClock == 0
DefaultRunTime == 1000
NoKwarg == -1

new_clock ==
    [state |-> "new", current_time |-> 0, orig_play |-> NoCallable,
     orig_wait |-> NoCallable, captions |-> <<>>]

\* Line 1252: rt = float(kwargs.get("run_time", 1.0)).
play_run_time_default(run_time) == DefaultRunTime

play_run_time(run_time) == IF run_time = NoKwarg THEN DefaultRunTime ELSE run_time

\* Lines 1251-1255, called through scene.play = f.
RECURSIVE wrapped_play(_, _, _, _)
wrapped_play(clks, f, run_time, orig_raises) ==
    IF f = Original THEN [clocks |-> clks, raised |-> orig_raises]
    ELSE LET rt == play_run_time(run_time)
             res == wrapped_play(clks, clks[f].orig_play, run_time, orig_raises)
         IN  IF res.raised THEN res
             ELSE [clocks |-> [res.clocks EXCEPT ![f].current_time = @ + rt],
                   raised |-> FALSE]

\* Lines 1257-1263, called through scene.wait = f.
RECURSIVE wrapped_wait(_, _, _, _)
wrapped_wait(clks, f, duration, orig_raises) ==
    IF f = Original THEN [clocks |-> clks, raised |-> orig_raises]
    ELSE LET res == wrapped_wait(clks, clks[f].orig_wait, duration, orig_raises)
         IN  IF res.raised THEN res
             ELSE [clocks |-> [res.clocks EXCEPT ![f].current_time = @ + duration],
                   raised |-> FALSE]

\* Lines 1271-1274: __exit__ puts back what __enter__ saved, if anything.
restore_nothing(orig, current) == current

restore(orig, current) == IF orig # NoCallable THEN orig ELSE current

\* PlaybackClock.add_caption, lines 1279-1280.
clock_add_caption(clks, c, start, end, text) ==
    [clks EXCEPT ![c].captions = Append(@, <<start, end, text>>)]

\* display_text_safely, lines 593-605: run_time goes to FadeIn and FadeOut,
\* not to scene.play.  raise_at is the call of the scene that raises (1 the
\* fade in, 2 the wait, 3 the fade out), 0 when none does.  The first
\* definition is the function without lines 599-604.
display_text_safely_unlogged(clks, play_f, wait_f, dot, text, wait_time, raise_at) ==
    LET fade_in == wrapped_play(clks, play_f, NoKwarg, raise_at = 1)
        waited == IF fade_in.raised THEN fade_in
                  ELSE wrapped_wait(fade_in.clocks, wait_f, wait_time, raise_at = 2)
    IN  IF waited.raised THEN waited
        ELSE wrapped_play(waited.clocks, play_f, NoKwarg, raise_at = 3)

display_text_safely(clks, play_f, wait_f, dot, text, wait_time, raise_at) ==
    LET fade_in == wrapped_play(clks, play_f, NoKwarg, raise_at = 1)
        waited == IF fade_in.raised THEN fade_in
                  ELSE wrapped_wait(fade_in.clocks, wait_f, wait_time, raise_at = 2)
        fade_out == IF waited.raised THEN waited
                    ELSE wrapped_play(waited.clocks, play_f, NoKwarg, raise_at = 3)
    IN  IF fade_out.raised \/ dot = NoClock THEN fade_out
        ELSE [clocks |-> clock_add_caption(fade_out.clocks, dot,
                                           clks[dot].current_time,
                                           fade_out.clocks[dot].current_time, text),
              raised |-> FALSE]

(***************************************************************************)
(* Phase, lines 378-421.  scene.mobjects is a list without repetitions.     *)
(* The scene is manim's: add(m) takes m out of the list and appends it,     *)
(* remove(m) takes it out, playing FadeIn(m) adds m when it is not there,   *)
(* playing FadeOut(m) removes it.                                           *)
(***************************************************************************)
scene_remove(mobs, m) == SelectSeq(mobs, LAMBDA x : x # m)

scene_add(mobs, m) == Append(scene_remove(mobs, m), m)

play_fade_in(mobs, m) == IF \E i \in 1..Len(mobs) : mobs[i] = m THEN mobs ELSE Append(mobs, m)

RECURSIVE play_fade_out(_, _)
play_fade_out(mobs, faded_out) ==
    IF faded_out = <<>> THEN mobs
    ELSE play_fade_out(scene_remove(mobs, Head(faded_out)), Tail(faded_out))

DimRect == 0
NoRect == -1

\* Phase.__init__, lines 388-393.
new_phase(dim, clear_on_exit) ==
    [state |-> "new", dim |-> dim, clear_on_exit |-> clear_on_exit,
     enter_index |-> 0, dim_rect |-> NoRect]

\* Line 418: self.scene.mobjects[self._enter_index:].
new_objects(mobs, enter_index) == SubSeq(mobs, enter_index + 1, Len(mobs))

(***************************************************************************)
(* load_chain_registry, lines 426-450.  What json.load makes of a file:     *)
(* the registry written in it, None for the JSON text null, an exception    *)
(* for a text that is not JSON.  NoneValue is Python's None, EmptyRegistry  *)
(* the dict {}.                                                             *)
(***************************************************************************)
NoneValue == "None"
EmptyRegistry == "{}"
DefaultPath == "chains.json"
NoPathArg == "None"

json_load(content) ==
    CASE content = "null" -> [raised |-> FALSE, value |-> NoneValue]
      [] content = "garbage" -> [raised |-> TRUE, value |-> NoneValue]
      [] OTHER -> [raised |-> FALSE, value |-> content]

\* The whole function: the new cache, the value returned, the files read.
load_chain_registry(cache, files, path) ==
    IF cache # NoneValue THEN [cache |-> cache, returned |-> cache, read |-> <<>>]
    ELSE LET registry_path == IF path # NoPathArg THEN path ELSE DefaultPath
             loaded == json_load(files[registry_path])
             value == IF files[registry_path] = "missing" THEN EmptyRegistry
                      ELSE IF loaded.raised THEN EmptyRegistry
                      ELSE loaded.value
         IN  [cache |-> value, returned |-> value,
              read |-> IF files[registry_path] = "missing" THEN <<>>
                       ELSE <<registry_path>>]

(***************************************************************************)
(* Files of a narration run.  work_dir is a fresh directory; a path is a   *)
(* string and the file system is the set of paths that exist.              *)
(***************************************************************************)
InputVideo == "input.mp4"
OutputVideo == "output.mp4"
SrtPath == "captions.srt"
TempSubbed == "temp_subbed.mp4"
MixedAudio == "narration.aac"
TempMuxed == "video_with_audio.mp4"
NarratedTemp == "narrated_temp.mp4"
Mp3Path(idx) == "tts_00" \o ToString(idx) \o ".mp3"
FitPath(idx) == "tts_00" \o ToString(idx) \o "_fit.aac"

(***************************************************************************)
(* The external steps.  tool_ok says whether the tool (ffmpeg, gTTS), run  *)
(* on inputs that exist, succeeds; on a missing input it fails whatever    *)
(* tool_ok is.  Each wrapper swallows the failure and returns the file     *)
(* system it leaves behind.                                                *)
(***************************************************************************)
attach_subtitles(files, input_video, srt_path, output_video, tool_ok) ==
    IF tool_ok /\ input_video \in files /\ srt_path \in files
    THEN files \cup {output_video}
    ELSE files

mux_audio(files, input_video, audio_path, output_video, tool_ok) ==
    IF tool_ok /\ input_video \in files /\ audio_path \in files
    THEN files \cup {output_video}
    ELSE files

synthesize_tts(files, output_mp3, tool_ok) ==
    IF tool_ok THEN files \cup {output_mp3} ELSE files

add_background_music(files, input_video, output_video, tool_ok) ==
    IF tool_ok /\ input_video \in files
    THEN files \cup {output_video}
    ELSE files

\* subprocess.run(cmd_mix) inside try/except, lines 1404-1417.
run_cmd_mix(files, tracks, mixed_audio, tool_ok) ==
    IF tool_ok /\ \A i \in 1..Len(tracks) : tracks[i][2] \in files
    THEN files \cup {mixed_audio}
    ELSE files

\* _probe_duration_seconds: 0.0 when ffprobe fails or the file is missing.
ProbeVals == {0, 1000}
_probe_duration_seconds(files, audio_path, probed) ==
    IF audio_path \in files THEN Max(0, probed) ELSE 0

(***************************************************************************)
(* _fit_audio_to_duration, lines 1480-1519.  A tempo ratio is the fraction *)
(* <<numerator, denominator>>; dividing by 2.0 or by 0.5 is exact in       *)
(* binary floating point as it is here.                                    *)
(***************************************************************************)
RECURSIVE Gcd(_, _)
Gcd(a, b) == IF b = 0 THEN a ELSE Gcd(b, a % b)

\* tempo = original / target_seconds, line 1498 (in lowest terms).
tempo_ratio(original, target_seconds) ==
    LET g == Gcd(original, target_seconds)
    IN  <<original \div g, target_seconds \div g>>

RatLess(a, b) == a[1] * b[2] < b[1] * a[2]

FastStage == <<2, 1>>
SlowStageCopied == <<2, 1>>
SlowStage == <<1, 2>>

\* while remaining > 2.0: parts.append(2.0); remaining /= 2.0
RECURSIVE speed_up_loop(_, _)
speed_up_loop(parts, remaining) ==
    IF RatLess(<<2, 1>>, remaining)
    THEN speed_up_loop(Append(parts, FastStage), <<remaining[1], 2 * remaining[2]>>)
    ELSE [parts |-> parts, remaining |-> remaining]

\* while remaining < 0.5: parts.append(0.5); remaining /= 0.5
RECURSIVE slow_down_loop(_, _)
slow_down_loop(parts, remaining) ==
    IF RatLess(remaining, <<1, 2>>)
    THEN slow_down_loop(Append(parts, SlowStage), <<2 * remaining[1], remaining[2]>>)
    ELSE [parts |-> parts, remaining |-> remaining]

\* parts.append(remaining), line 1509.
last_stage_tempo(tempo, remaining) == tempo
last_stage(tempo, remaining) == remaining

\* Lines 1498-1509: the stage list for tempo.
tempo_parts(tempo) ==
    LET fast == speed_up_loop(<<>>, tempo)
        slow == slow_down_loop(fast.parts, fast.remaining)
    IN  Append(slow.parts, last_stage(tempo, slow.remaining))

\* f"{p:.6f}", line 1511: the stage in millionths, rounded to the nearest.
\* (No stage of the inputs tried lies halfway between two millionths.)
Format6(p) == (2 * p[1] * 1000000 + p[2]) \div (2 * p[2])

atempo_filter(parts) == [i \in 1..Len(parts) |-> Format6(parts[i])]

\* _fit_audio_to_duration: the files it leaves, whether it raised, and what
\* it did: "copy" (shutil.copyfile of the source), "stretch" (ffmpeg ran the
\* atempo chain), or "none" (the copy or ffmpeg failed).
_fit_audio_to_duration(files, input_audio, output_audio, target_seconds, probed, tool_ok) ==
    LET original == _probe_duration_seconds(files, input_audio, probed)
    IN  IF original <= 0 \/ target_seconds <= 0
        THEN IF input_audio \in files
             THEN [files |-> files \cup {output_audio}, raised |-> FALSE,
                   did |-> "copy", ffmpeg |-> FALSE, parts |-> <<>>, filter |-> <<>>,
                   original |-> original]
             ELSE [files |-> files, raised |-> TRUE,
                   did |-> "none", ffmpeg |-> FALSE, parts |-> <<>>, filter |-> <<>>,
                   original |-> original]
        ELSE LET parts == tempo_parts(tempo_ratio(original, target_seconds))
                 filt == atempo_filter(parts)
             IN  IF tool_ok
                 THEN [files |-> files \cup {output_audio}, raised |-> FALSE,
                       did |-> "stretch", ffmpeg |-> TRUE, parts |-> parts, filter |-> filt,
                       original |-> original]
                 ELSE [files |-> files, raised |-> TRUE,
                       did |-> "none", ffmpeg |-> TRUE, parts |-> parts, filter |-> filt,
                       original |-> original]

(***************************************************************************)
(* auto_narrate_and_subtitle, step 1 (lines 1346-1357): the sequential     *)
(* resequencing done inside the orchestrator.                              *)
(***************************************************************************)
SeqMinDur == 400

sequential_step(cap, current, min_gap_s) ==
    LET s == cap[1]
        e == cap[2]
        t == cap[3]
        duration == Max(SeqMinDur, e - s)
        start == current
        end == start + duration
    IN  [out |-> <<start, end, t>>, current |-> end + min_gap_s]

RECURSIVE sequential_loop(_, _, _, _)
sequential_loop(ordered, seq, current, min_gap_s) ==
    IF ordered = <<>> THEN seq
    ELSE LET step == sequential_step(Head(ordered), current, min_gap_s)
         IN  sequential_loop(Tail(ordered), Append(seq, step.out), step.current, min_gap_s)

resequence(caps, is_sequential, min_gap_s) ==
    IF is_sequential /\ caps # <<>>
    THEN LET ordered == sorted(caps)
         IN  sequential_loop(ordered, <<>>, Max(0, ordered[1][1]), min_gap_s)
    ELSE caps

\* Python lists are objects: a name is bound either to the caller's list
\* itself or to a list made during the call.  Line 1608 binds schedule to the
\* caller's list, list(captions) at line 1346 makes a new list of the same
\* items, and ordered.sort at line 1348 reorders the list it is called on.
list_copy_alias(binding) == binding

list_copy(binding) == [callers |-> FALSE, items |-> binding.items]

\* The caller's list when step 1 is over.
caller_after_resequence(arg, caller_items, is_sequential) ==
    LET ordered == list_copy(arg)
    IN  IF is_sequential /\ ordered.items # <<>> /\ ordered.callers
        THEN sorted(ordered.items)
        ELSE caller_items

\* Lines 1393-1402: what the zero-track branch returns.
zero_track_result_output(burn, input_video, temp_out, output_video) ==
    output_video

zero_track_result(burn, input_video, temp_out, output_video) ==
    IF burn THEN temp_out ELSE input_video

(***************************************************************************)
(* The caption loaders, lines 1525-1572.  A file is the sequence of its    *)
(* rows.  A timestamp cell is what the parser (json.loads, csv.DictReader)  *)
(* hands to float(): a number, the text nan, a text that is no number, the  *)
(* None of a short CSV row, or no such key at all.  A float is a number of  *)
(* milliseconds or NaN, which compares false with everything.              *)
(***************************************************************************)
NumCell(v) == [k |-> "num", v |-> v]
NanCell == [k |-> "nan", v |-> 0]
BadCell == [k |-> "bad", v |-> 0]
NoneCell == [k |-> "none", v |-> 0]
AbsentCell == [k |-> "absent", v |-> 0]

Finite(v) == [nan |-> FALSE, v |-> v]
NaN == [nan |-> TRUE, v |-> 0]

FLeq(a, b) == ~a.nan /\ ~b.nan /\ a.v <= b.v
FLess(a, b) == ~a.nan /\ ~b.nan /\ a.v < b.v
FAdd(a, k) == IF a.nan THEN NaN ELSE Finite(a.v + k)

\* float(item.get(key, 0.0)), float(item[i]): the value, or raised.
float_of(cell) ==
    CASE cell.k = "num" -> [raised |-> FALSE, val |-> Finite(cell.v)]
      [] cell.k = "nan" -> [raised |-> FALSE, val |-> NaN]
      [] cell.k = "absent" -> [raised |-> FALSE, val |-> Finite(0)]
      [] OTHER -> [raised |-> TRUE, val |-> Finite(0)]

LoadMinDur == 400

\* Lines 1543-1547 and 1567-1571: the captions with one parsed row added.
append_row(loaded, s, e, t) ==
    IF t = "" THEN loaded
    ELSE Append(loaded, <<s, IF FLeq(e, s) THEN FAdd(s, LoadMinDur) ELSE e, t>>)

\* load_captions_from_json, lines 1536-1548, from item i on: float() is
\* called outside any try, so what it raises leaves the function.
RECURSIVE load_json_loop(_, _, _)
load_json_loop(data, i, loaded) ==
    IF i > Len(data) THEN [raised |-> FALSE, captions |-> loaded]
    ELSE LET item == data[i]
             s == float_of(item.start)
             e == float_of(item.end)
         IN  IF item.shape \notin {"list", "dict"}
             THEN load_json_loop(data, i + 1, loaded)
             ELSE IF s.raised \/ e.raised
             THEN [raised |-> TRUE, captions |-> <<>>]
             ELSE load_json_loop(data, i + 1,
                                 append_row(loaded, s.val, e.val, item.text))

load_captions_from_json(data) == load_json_loop(data, 1, <<>>)

\* load_captions_from_csv, lines 1560-1572, from row i on: the conversions
\* sit in try/except, a row that raises is passed over.
RECURSIVE load_csv_loop(_, _, _)
load_csv_loop(rows, i, loaded) ==
    IF i > Len(rows) THEN [raised |-> FALSE, captions |-> loaded]
    ELSE LET row == rows[i]
             s == float_of(row.start)
             e == float_of(row.end)
         IN  IF s.raised \/ e.raised
             THEN load_csv_loop(rows, i + 1, loaded)
             ELSE load_csv_loop(rows, i + 1,
                                append_row(loaded, s.val, e.val, row.text))

load_captions_from_csv(rows) == load_csv_loop(rows, 1, <<>>)

(***************************************************************************)
(* State.                                                                  *)
(***************************************************************************)
VARIABLES
    captions,     \* the caller's caption list
    min_gap,      \* min_gap_s
    sched_pc,     \* "idle" before _schedule_non_overlapping ran, "done" after
    result,       \* the list _schedule_non_overlapping returned
    pc,           \* where the narration call stands
    entry,        \* the function the caller called
    burn_subtitles,
    allow_time_push,
    sequential,
    constrain_tts_to_caption,
    output_video, \* output_video argument of auto_narrate_and_subtitle
    schedule,     \* captions argument of auto_narrate_and_subtitle
    ordered,      \* auto_narrate_and_subtitle: ordered
    track,        \* SubtitleTrack._items saved to captions.srt
    tts_files,    \* auto_narrate_and_subtitle: tts_files, <<start, path>>
    fs,           \* the files that exist
    calls,        \* the external media steps invoked so far
    narrated,     \* what auto_narrate_and_subtitle returned
    ret           \* what the caller got back

VARIABLES
    fit_pc,       \* "idle" before _fit_audio_to_duration ran alone, "done" after
    fit_args,     \* its arguments and what the tools will do
    fit_res       \* what it did

sched_vars == <<sched_pc, result>>
narr_vars == <<pc, entry, burn_subtitles, allow_time_push, sequential,
               constrain_tts_to_caption, output_video, schedule, ordered, track,
               tts_files, fs, calls, narrated, ret>>
\* A call of a caption loader: the format, the rows of the file, the outcome.
VARIABLES
    load_pc,
    load_fmt,
    load_rows,
    load_res

\* A SubtitleTrack in use: its _items and the cues of the last to_srt.
VARIABLES
    srt_pc,
    _items,
    srt

fit_vars == <<fit_pc, fit_args, fit_res>>
load_vars == <<load_pc, load_fmt, load_rows, load_res>>
srt_vars == <<srt_pc, _items, srt>>

\* A scene and the PlaybackClocks made for it: the clocks, the scene's play
\* and wait attributes, its _dot_clock attribute, the with-blocks that are
\* open (innermost last), the displays made so far, the calls of scene.play
\* and scene.wait made by the last step, and the number of steps.
VARIABLES
    clocks,
    scene_play,
    scene_wait,
    dot_clock,
    stack,
    displays,
    last_calls,
    ops

clk_vars == <<clocks, scene_play, scene_wait, dot_clock, stack, displays, last_calls, ops>>

\* A scene with one Phase: the scene's mobjects, the Phase object, and, for
\* the properties, the objects on the scene at __enter__, the objects the
\* body added that were not, the objects on the scene when __exit__ began
\* and the objects __exit__ faded out; the number of steps of the body.
VARIABLES
    mobjects,
    phase,
    before,
    created,
    at_exit,
    faded,
    scene_ops

\* The registry cache of the process: the module global, the files on disk,
\* and for each call made the value returned and the files it read.
VARIABLES
    _CHAIN_REGISTRY_CACHE,
    reg_files,
    reg_log

phase_vars == <<mobjects, phase, before, created, at_exit, faded, scene_ops>>
reg_vars == <<_CHAIN_REGISTRY_CACHE, reg_files, reg_log>>
aux_vars == <<fit_vars, load_vars, srt_vars, clk_vars, phase_vars, reg_vars>>
vars == <<captions, min_gap, sched_vars, narr_vars, aux_vars>>

NoPath == ""

\* No narration call under way.
NarrIdle ==
    /\ pc = "idle"
    /\ entry = "none"
    /\ burn_subtitles = FALSE
    /\ allow_time_push = TRUE
    /\ sequential = TRUE
    /\ constrain_tts_to_caption = FALSE
    /\ output_video = OutputVideo
    /\ schedule = <<>>
    /\ ordered = <<>>
    /\ track = <<>>
    /\ tts_files = <<>>
    /\ calls = <<>>
    /\ narrated = NoPath
    /\ ret = NoPath

NoFit == [files |-> {}, raised |-> FALSE, did |-> "none", ffmpeg |-> FALSE,
          parts |-> <<>>, filter |-> <<>>, original |-> 0]

FitIdle ==
    /\ fit_pc = "idle"
    /\ fit_args = [original |-> 0, target |-> 0, exists |-> FALSE, tool_ok |-> FALSE]
    /\ fit_res = NoFit

\* Nothing but the scheduler or the narration under way.
NoLoad == [raised |-> FALSE, captions |-> <<>>]

LoadIdle ==
    /\ load_pc = "idle"
    /\ load_fmt = "json"
    /\ load_rows = <<>>
    /\ load_res = NoLoad

SrtIdle ==
    /\ srt_pc = "adding"
    /\ _items = <<>>
    /\ srt = <<>>

MaxClocks == 2

ClockIdle ==
    /\ clocks = [c \in 1..MaxClocks |-> new_clock]
    /\ scene_play = Original
    /\ scene_wait = Original
    /\ dot_clock = NoClock
    /\ stack = <<>>
    /\ displays = <<>>
    /\ last_calls = <<>>
    /\ ops = 0

PhaseIdle ==
    /\ mobjects = <<>>
    /\ phase = new_phase(FALSE, FALSE)
    /\ before = {}
    /\ created = {}
    /\ at_exit = {}
    /\ faded = {}
    /\ scene_ops = 0

RegPaths == {DefaultPath, "custom.json"}

RegIdle ==
    /\ _CHAIN_REGISTRY_CACHE = NoneValue
    /\ reg_files = [q \in RegPaths |-> "missing"]
    /\ reg_log = <<>>

AuxIdle == FitIdle /\ LoadIdle /\ SrtIdle /\ ClockIdle /\ PhaseIdle /\ RegIdle

(***************************************************************************)
(* The scheduler on its own: every caption list and gap, one call.         *)
(***************************************************************************)
InitSched ==
    /\ captions \in CaptionLists
    /\ min_gap \in Gaps
    /\ sched_pc = "idle"
    /\ result = <<>>
    /\ NarrIdle
    /\ AuxIdle
    /\ fs = {}

Schedule ==
    /\ sched_pc = "idle"
    /\ result' = _schedule_non_overlapping(captions, min_gap)
    /\ sched_pc' = "done"
    /\ UNCHANGED <<captions, min_gap, narr_vars, aux_vars>>

NextSched == Schedule

SpecSched == InitSched /\ [][NextSched]_vars

(***************************************************************************)
(* The narration entry points and the orchestrator, one action per step.   *)
(***************************************************************************)
MaxNarrCaps == 2
\* Two overlapping captions and a short one, all with start >= 0 and end > start.
NarrCaptions == {<<0, 1000, "A">>, <<500, 1500, "B">>, <<2000, 2200, "C">>}

InitNarrate ==
    /\ captions \in SeqsUpTo(NarrCaptions, MaxNarrCaps)
    /\ min_gap \in Gaps
    /\ sched_pc = "idle"
    /\ result = <<>>
    /\ NarrIdle
    /\ AuxIdle
    /\ fs \in {{}, {InputVideo}}

\* narrate_from_captions, lines 1608-1610: the list handed to the orchestrator.
narrate_schedule_always_push(caps, push, min_gap_s) ==
    _schedule_non_overlapping(caps, min_gap_s)

narrate_schedule(caps, push, min_gap_s) ==
    IF push THEN _schedule_non_overlapping(caps, min_gap_s) ELSE caps

\* A caller invokes auto_narrate_and_subtitle directly.
CallAutoNarrate ==
    /\ pc = "idle"
    /\ \E burn \in BOOLEAN, seq \in BOOLEAN, constrain \in BOOLEAN :
           /\ burn_subtitles' = burn
           /\ sequential' = seq
           /\ constrain_tts_to_caption' = constrain
    /\ entry' = "auto_narrate_and_subtitle"
    /\ output_video' = OutputVideo
    /\ schedule' = captions
    /\ pc' = "resequence"
    /\ UNCHANGED <<aux_vars, captions, min_gap, sched_vars, allow_time_push, ordered, track,
                   tts_files, fs, calls, narrated, ret>>

\* narrate_from_captions: schedule, then the orchestrator with sequential=False.
CallNarrateFromCaptions ==
    /\ pc = "idle"
    /\ \E burn \in BOOLEAN, push \in BOOLEAN :
           /\ burn_subtitles' = burn
           /\ allow_time_push' = push
           /\ schedule' = narrate_schedule(captions, push, min_gap)
    /\ entry' = "narrate_from_captions"
    /\ sequential' = FALSE
    /\ constrain_tts_to_caption' = FALSE
    /\ output_video' = OutputVideo
    /\ pc' = "resequence"
    /\ UNCHANGED <<aux_vars, captions, min_gap, sched_vars, ordered, track, tts_files, fs,
                   calls, narrated, ret>>

\* narrate_with_bgm: narrate_from_captions with its defaults into the temp file.
CallNarrateWithBgm ==
    /\ pc = "idle"
    /\ \E burn \in BOOLEAN : burn_subtitles' = burn
    /\ entry' = "narrate_with_bgm"
    /\ allow_time_push' = TRUE
    /\ schedule' = narrate_schedule(captions, TRUE, DefaultMinGap)
    /\ sequential' = FALSE
    /\ constrain_tts_to_caption' = FALSE
    /\ output_video' = NarratedTemp
    /\ pc' = "resequence"
    /\ UNCHANGED <<aux_vars, captions, min_gap, sched_vars, ordered, track, tts_files, fs,
                   calls, narrated, ret>>

\* min_gap_s inside the orchestrator: the caller's, or the default when
\* narrate_from_captions made the call.
AutoMinGap == IF entry = "auto_narrate_and_subtitle" THEN min_gap ELSE DefaultMinGap

\* The captions argument of the orchestrator: the caller's own list when the
\* call is direct or narrate_from_captions passed it on untouched (line 1608),
\* the scheduler's new list otherwise.
CaptionsArg ==
    [callers |-> entry = "auto_narrate_and_subtitle" \/ ~allow_time_push,
     items |-> schedule]

\* Step 1, lines 1346-1357.
Resequence ==
    /\ pc = "resequence"
    /\ ordered' = resequence(schedule, sequential, AutoMinGap)
    /\ captions' = caller_after_resequence(CaptionsArg, captions, sequential)
    /\ pc' = "subtitles"
    /\ UNCHANGED <<aux_vars, min_gap, sched_vars, entry, burn_subtitles, allow_time_push,
                   sequential, constrain_tts_to_caption, output_video, schedule, track,
                   tts_files, fs, calls, narrated, ret>>

\* Step 1b, lines 1359-1363.
BuildSubtitles ==
    /\ pc = "subtitles"
    /\ track' = add_captions(<<>>, ordered)
    /\ fs' = fs \cup {SrtPath}
    /\ calls' = Append(calls, [step |-> "srt", src |-> NoPath, aux |-> NoPath, out |-> SrtPath])
    /\ pc' = "tts"
    /\ UNCHANGED <<aux_vars, captions, min_gap, sched_vars, entry, burn_subtitles, allow_time_push,
                   sequential, constrain_tts_to_caption, output_video, schedule, ordered,
                   tts_files, narrated, ret>>

Call(step, src, aux, out) == [step |-> step, src |-> src, aux |-> aux, out |-> out]

TtsMinDur == 400

\* Lines 1374-1379: the track of a caption whose audio went through the fit;
\* the raw mp3 when the fit raised.
fit_track_no_fallback(start, fit, mp3_path, stretched) == <<start, stretched>>

fit_track(start, fit, mp3_path, stretched) ==
    <<start, IF fit.raised THEN mp3_path ELSE stretched>>

\* What _fit_audio_to_duration invoked: the probe, then the copy or ffmpeg.
fit_calls(fit, mp3_path, stretched) ==
    <<Call("fit", mp3_path, NoPath, stretched),
      Call("probe", mp3_path, IF fit.original > 0 THEN "positive" ELSE "zero", NoPath),
      IF fit.ffmpeg THEN Call("atempo", mp3_path, NoPath, stretched)
                    ELSE Call("copy", mp3_path, NoPath, stretched)>>

\* Step 2, one pass of the loop of lines 1367-1381.
TtsStep ==
    /\ pc = "tts"
    /\ Len(tts_files) < Len(ordered)
    /\ \E synth_ok \in BOOLEAN, probed \in ProbeVals, fit_ok \in BOOLEAN :
           LET idx == Len(tts_files)
               start == ordered[idx + 1][1]
               end == ordered[idx + 1][2]
               text == ordered[idx + 1][3]
               mp3_path == Mp3Path(idx)
               stretched == FitPath(idx)
               synth == synthesize_tts(fs, mp3_path, synth_ok)
               target_duration == Max(TtsMinDur, end - start)
               fit == _fit_audio_to_duration(synth, mp3_path, stretched,
                                             target_duration, probed, fit_ok)
           IN  IF constrain_tts_to_caption
               THEN /\ fs' = fit.files
                    /\ tts_files' = Append(tts_files,
                                           fit_track(start, fit, mp3_path, stretched))
                    /\ calls' = calls \o <<Call("tts", text, NoPath, mp3_path)>>
                                      \o fit_calls(fit, mp3_path, stretched)
               ELSE /\ fs' = synth
                    /\ tts_files' = Append(tts_files, <<start, mp3_path>>)
                    /\ calls' = Append(calls, Call("tts", text, NoPath, mp3_path))
    /\ UNCHANGED <<aux_vars, captions, min_gap, sched_vars, pc, entry, burn_subtitles,
                   allow_time_push, sequential, constrain_tts_to_caption, output_video,
                   schedule, ordered, track, narrated, ret>>

\* The orchestrator returns path: to the caller, or to narrate_with_bgm.
Returns(path) ==
    /\ narrated' = path
    /\ IF entry = "narrate_with_bgm"
       THEN pc' = "bgm" /\ ret' = ret
       ELSE pc' = "done" /\ ret' = path

\* Lines 1393-1402: no track, no mix.
ZeroTracks ==
    /\ pc = "tts"
    /\ Len(tts_files) = Len(ordered)
    /\ tts_files = <<>>
    /\ \E tool_ok \in BOOLEAN :
           IF burn_subtitles
           THEN /\ fs' = attach_subtitles(fs, InputVideo, SrtPath, TempSubbed, tool_ok)
                /\ calls' = Append(calls, Call("burn", InputVideo, SrtPath, TempSubbed))
           ELSE UNCHANGED <<fs, calls>>
    /\ Returns(zero_track_result(burn_subtitles, InputVideo, TempSubbed, output_video))
    /\ UNCHANGED <<aux_vars, captions, min_gap, sched_vars, entry, burn_subtitles, allow_time_push,
                   sequential, constrain_tts_to_caption, output_video, schedule, ordered,
                   track, tts_files>>

\* Line 1390: delay_ms = int(max(0, start) * 1000), a whole number of
\* milliseconds already.
delay_ms_unclamped(start) == start

delay_ms(start) == Max(0, start)

\* Lines 1385-1392 and 1404: the -i list and the filter graph of cmd_mix.
\* Filter i is "[i:a]adelay=d|d[ai]": input i, the delay of the left and of
\* the right channel, the label ai; amix names the labels and inputs=n.
mix_inputs(tracks) == [i \in 1..Len(tracks) |-> tracks[i][2]]

mix_filter(i, start) ==
    [input |-> i, left |-> delay_ms(start), right |-> delay_ms(start), label |-> i]

filtergraph(tracks) ==
    [filters |-> [i \in 1..Len(tracks) |-> mix_filter(i - 1, tracks[i][1])],
     amix_inputs |-> [i \in 1..Len(tracks) |-> i - 1],
     inputs |-> Len(tracks)]

\* Step 3, lines 1385-1417.
Mix ==
    /\ pc = "tts"
    /\ Len(tts_files) = Len(ordered)
    /\ tts_files # <<>>
    /\ \E tool_ok \in BOOLEAN : fs' = run_cmd_mix(fs, tts_files, MixedAudio, tool_ok)
    /\ calls' = Append(calls, Call("mix", mix_inputs(tts_files), filtergraph(tts_files),
                                   MixedAudio))
    /\ pc' = "mux"
    /\ UNCHANGED <<aux_vars, captions, min_gap, sched_vars, entry, burn_subtitles, allow_time_push,
                   sequential, constrain_tts_to_caption, output_video, schedule, ordered,
                   track, tts_files, narrated, ret>>

\* Step 4, lines 1420-1421.
Mux ==
    /\ pc = "mux"
    /\ \E tool_ok \in BOOLEAN :
           fs' = mux_audio(fs, InputVideo, MixedAudio, TempMuxed, tool_ok)
    /\ calls' = Append(calls, Call("mux", InputVideo, MixedAudio, TempMuxed))
    /\ pc' = "finish"
    /\ UNCHANGED <<aux_vars, captions, min_gap, sched_vars, entry, burn_subtitles, allow_time_push,
                   sequential, constrain_tts_to_caption, output_video, schedule, ordered,
                   track, tts_files, narrated, ret>>

\* Lines 1429-1438: unlink the output, rename the muxed file onto it, copy it
\* when the rename fails; the copy of a missing file raises.
move_to_output(files, temp_muxed, out, rename_ok) ==
    LET unlinked == files \ {out}
    IN  IF rename_ok /\ temp_muxed \in unlinked
        THEN [files |-> (unlinked \ {temp_muxed}) \cup {out}, raised |-> FALSE]
        ELSE IF temp_muxed \in unlinked
             THEN [files |-> unlinked \cup {out}, raised |-> FALSE]
             ELSE [files |-> unlinked, raised |-> TRUE]

\* Line 1426: the burn-in of step 5 reads the muxed file.
burn_call_on_input(input_video, temp_muxed, srt_path, out) ==
    Call("burn", input_video, srt_path, out)

burn_call(input_video, temp_muxed, srt_path, out) ==
    Call("burn", temp_muxed, srt_path, out)

\* Step 5, lines 1424-1440.
Finish ==
    /\ pc = "finish"
    /\ \E tool_ok \in BOOLEAN :
           IF burn_subtitles
           THEN LET burn == burn_call(InputVideo, TempMuxed, SrtPath, output_video)
                IN  /\ fs' = attach_subtitles(fs, burn.src, burn.aux, burn.out, tool_ok)
                    /\ calls' = Append(calls, burn)
                    /\ Returns(output_video)
           ELSE LET moved == move_to_output(fs, TempMuxed, output_video, tool_ok)
                IN  /\ fs' = moved.files
                    /\ calls' = calls
                    /\ IF moved.raised
                       THEN pc' = "raised" /\ UNCHANGED <<narrated, ret>>
                       ELSE Returns(output_video)
    /\ UNCHANGED <<aux_vars, captions, min_gap, sched_vars, entry, burn_subtitles, allow_time_push,
                   sequential, constrain_tts_to_caption, output_video, schedule, ordered,
                   track, tts_files>>

\* narrate_with_bgm, lines 1652-1653.
AddBackgroundMusic ==
    /\ pc = "bgm"
    /\ \E tool_ok \in BOOLEAN :
           fs' = add_background_music(fs, narrated, OutputVideo, tool_ok)
    /\ calls' = Append(calls, Call("music", narrated, NoPath, OutputVideo))
    /\ ret' = OutputVideo
    /\ pc' = "done"
    /\ UNCHANGED <<aux_vars, captions, min_gap, sched_vars, entry, burn_subtitles, allow_time_push,
                   sequential, constrain_tts_to_caption, output_video, schedule, ordered,
                   track, tts_files, narrated>>

NextNarrate ==
    \/ CallAutoNarrate
    \/ CallNarrateFromCaptions
    \/ CallNarrateWithBgm
    \/ Resequence
    \/ BuildSubtitles
    \/ TtsStep
    \/ ZeroTracks
    \/ Mix
    \/ Mux
    \/ Finish
    \/ AddBackgroundMusic

SpecNarrate == InitNarrate /\ [][NextNarrate]_vars

\* The same calls on caption lists that also hold what the data model rules
\* out: a caption whose end is not after its start, and a negative start.
OddCaptions == {<<1000, 1000, "D">>, <<-500, 300, "E">>}

InitNarrateAny ==
    /\ captions \in SeqsUpTo(NarrCaptions \cup OddCaptions, MaxNarrCaps)
    /\ min_gap \in Gaps
    /\ sched_pc = "idle"
    /\ result = <<>>
    /\ NarrIdle
    /\ AuxIdle
    /\ fs \in {{}, {InputVideo}}

SpecNarrateAny == InitNarrateAny /\ [][NextNarrate]_vars

(***************************************************************************)
(* _fit_audio_to_duration on its own: every probed duration and target,    *)
(* source present or missing, ffmpeg working or failing.  Durations here   *)
(* are whole numbers of a unit of which only the quotient matters.         *)
(***************************************************************************)
MaxFitDur == 12
FitIn == "tts.mp3"
FitOut == "tts_fit.aac"

InitFit ==
    /\ captions = <<>>
    /\ min_gap = DefaultMinGap
    /\ sched_pc = "idle"
    /\ result = <<>>
    /\ NarrIdle
    /\ fs = {}
    /\ fit_pc = "idle"
    /\ fit_args \in [original : 0..MaxFitDur, target : 0..MaxFitDur,
                     exists : BOOLEAN, tool_ok : BOOLEAN]
    /\ fit_res = NoFit
    /\ LoadIdle
    /\ SrtIdle
    /\ ClockIdle
    /\ PhaseIdle
    /\ RegIdle

FitAudio ==
    /\ fit_pc = "idle"
    /\ fit_res' = _fit_audio_to_duration(IF fit_args.exists THEN {FitIn} ELSE {},
                                         FitIn, FitOut, fit_args.target,
                                         fit_args.original, fit_args.tool_ok)
    /\ fit_pc' = "done"
    /\ UNCHANGED <<captions, min_gap, sched_vars, narr_vars, fit_args, load_vars, srt_vars, clk_vars, phase_vars, reg_vars>>

NextFit == FitAudio

SpecFit == InitFit /\ [][NextFit]_vars

(***************************************************************************)
(* The caption loaders on their own: every file of up to MaxRows rows, in  *)
(* either format, one call.  A JSON item is a list of three, an object or   *)
(* something else; a CSV row is always a dict keyed by the header, a short  *)
(* row has None in its missing columns.                                     *)
(***************************************************************************)
MaxRows == 3

Row(shape, start, end, text) ==
    [shape |-> shape, start |-> start, end |-> end, text |-> text]

JsonItems ==
    {Row("list", NumCell(0), NumCell(1000), "A"),
     Row("dict", NumCell(1000), NumCell(3000), "B"),
     Row("list", NumCell(2000), NumCell(1000), "X"),
     Row("dict", NumCell(1000), NumCell(1000), "Y"),
     Row("list", NumCell(0), NumCell(1000), ""),
     Row("dict", NumCell(0), NumCell(1000), ""),
     Row("dict", AbsentCell, NumCell(1000), "Z"),
     Row("dict", NumCell(1000), AbsentCell, "Z"),
     Row("list", BadCell, NumCell(1000), "M"),
     Row("dict", NumCell(1000), BadCell, "M"),
     Row("list", NanCell, NumCell(1000), "N"),
     Row("other", NumCell(0), NumCell(0), "")}

CsvRows ==
    {Row("dict", NumCell(0), NumCell(1000), "A"),
     Row("dict", NumCell(1000), NumCell(3000), "B"),
     Row("dict", NumCell(2000), NumCell(1000), "X"),
     Row("dict", NumCell(1000), NumCell(1000), "Y"),
     Row("dict", NumCell(0), NumCell(1000), ""),
     Row("dict", AbsentCell, NumCell(1000), "Z"),
     Row("dict", BadCell, NumCell(1000), "M"),
     Row("dict", NumCell(1000), BadCell, "M"),
     Row("dict", NumCell(1000), NoneCell, "M"),
     Row("dict", NanCell, NumCell(1000), "N")}

InitLoad ==
    /\ captions = <<>>
    /\ min_gap = DefaultMinGap
    /\ sched_pc = "idle"
    /\ result = <<>>
    /\ NarrIdle
    /\ fs = {}
    /\ FitIdle
    /\ load_pc = "idle"
    /\ load_fmt \in {"json", "csv"}
    /\ load_rows \in SeqsUpTo(IF load_fmt = "json" THEN JsonItems ELSE CsvRows, MaxRows)
    /\ load_res = NoLoad
    /\ SrtIdle
    /\ ClockIdle
    /\ PhaseIdle
    /\ RegIdle

LoadJson ==
    /\ load_pc = "idle"
    /\ load_fmt = "json"
    /\ load_res' = load_captions_from_json(load_rows)
    /\ load_pc' = "done"
    /\ UNCHANGED <<captions, min_gap, sched_vars, narr_vars, fit_vars, srt_vars, clk_vars, phase_vars, reg_vars,
                   load_fmt, load_rows>>

LoadCsv ==
    /\ load_pc = "idle"
    /\ load_fmt = "csv"
    /\ load_res' = load_captions_from_csv(load_rows)
    /\ load_pc' = "done"
    /\ UNCHANGED <<captions, min_gap, sched_vars, narr_vars, fit_vars, srt_vars, clk_vars, phase_vars, reg_vars,
                   load_fmt, load_rows>>

NextLoad == LoadJson \/ LoadCsv

SpecLoad == InitLoad /\ [][NextLoad]_vars

(***************************************************************************)
(* A SubtitleTrack on its own: up to MaxCues add_caption calls with any    *)
(* times of SrtTimes, then to_srt.                                          *)
(***************************************************************************)
MaxCues == 2
SrtTimes == {0, 1000, 2400, 3723004}

InitSrt ==
    /\ captions = <<>>
    /\ min_gap = DefaultMinGap
    /\ sched_pc = "idle"
    /\ result = <<>>
    /\ NarrIdle
    /\ fs = {}
    /\ FitIdle
    /\ LoadIdle
    /\ SrtIdle
    /\ ClockIdle
    /\ PhaseIdle
    /\ RegIdle

AddCaption ==
    /\ srt_pc = "adding"
    /\ Len(_items) < MaxCues
    /\ \E start_s \in SrtTimes, end_s \in SrtTimes, text \in Texts :
           _items' = add_caption(_items, start_s, end_s, text)
    /\ UNCHANGED <<captions, min_gap, sched_vars, narr_vars, fit_vars, load_vars, clk_vars, phase_vars, reg_vars,
                   srt_pc, srt>>

ToSrt ==
    /\ srt_pc = "adding"
    /\ srt' = to_srt(_items)
    /\ srt_pc' = "exported"
    /\ UNCHANGED <<captions, min_gap, sched_vars, narr_vars, fit_vars, load_vars, clk_vars, phase_vars, reg_vars,
                   _items>>

NextSrt == AddCaption \/ ToSrt

SpecSrt == InitSrt /\ [][NextSrt]_vars

(***************************************************************************)
(* A scene driven under PlaybackClocks: with-blocks properly nested, each   *)
(* on a clock of its own, and up to MaxOps calls of scene.play, scene.wait  *)
(* and display_text_safely before, inside and after them.                   *)
(***************************************************************************)
MaxOps == 2
RunTimeKwargs == {NoKwarg, 700}
Durations == {-3000, 1500}

InitClock ==
    /\ captions = <<>>
    /\ min_gap = DefaultMinGap
    /\ sched_pc = "idle"
    /\ result = <<>>
    /\ NarrIdle
    /\ fs = {}
    /\ FitIdle
    /\ LoadIdle
    /\ SrtIdle
    /\ ClockIdle
    /\ PhaseIdle
    /\ RegIdle

rest_of_clock == <<captions, min_gap, sched_vars, narr_vars, fit_vars, load_vars, srt_vars,
                   phase_vars, reg_vars>>

\* One call of scene.play (arg: the run_time keyword or NoKwarg) or of
\* scene.wait (arg: the duration), and whether the scene's own method raised.
SceneCall(kind, arg, raised) == [kind |-> kind, arg |-> arg, raised |-> raised]

\* with PlaybackClock(scene): __init__ and __enter__, lines 1238-1267.
Enter ==
    /\ \E c \in 1..MaxClocks :
           /\ clocks[c].state = "new"
           /\ \A b \in 1..(c - 1) : clocks[b].state # "new"
           /\ clocks' = [clocks EXCEPT ![c].state = "active",
                                       ![c].orig_play = scene_play,
                                       ![c].orig_wait = scene_wait]
           /\ dot_clock' = c
           /\ scene_play' = c
           /\ scene_wait' = c
           /\ stack' = Append(stack, c)
    /\ last_calls' = <<>>
    /\ UNCHANGED <<rest_of_clock, displays, ops>>

\* The end of the innermost with-block: __exit__, lines 1269-1277.
Exit ==
    /\ stack # <<>>
    /\ LET c == stack[Len(stack)]
       IN  /\ scene_play' = restore(clocks[c].orig_play, scene_play)
           /\ scene_wait' = restore(clocks[c].orig_wait, scene_wait)
           /\ clocks' = [clocks EXCEPT ![c].state = "exited"]
    /\ dot_clock' = NoClock
    /\ stack' = SubSeq(stack, 1, Len(stack) - 1)
    /\ last_calls' = <<>>
    /\ UNCHANGED <<rest_of_clock, displays, ops>>

\* scene.play(..., run_time=...) by the scene's own code.
Play ==
    /\ ops < MaxOps
    /\ \E run_time \in RunTimeKwargs, orig_raises \in BOOLEAN :
           /\ clocks' = wrapped_play(clocks, scene_play, run_time, orig_raises).clocks
           /\ last_calls' = <<SceneCall("play", run_time, orig_raises)>>
    /\ ops' = ops + 1
    /\ UNCHANGED <<rest_of_clock, scene_play, scene_wait, dot_clock, stack, displays>>

\* scene.wait(duration) by the scene's own code.
Wait ==
    /\ ops < MaxOps
    /\ \E duration \in Durations, orig_raises \in BOOLEAN :
           /\ clocks' = wrapped_wait(clocks, scene_wait, duration, orig_raises).clocks
           /\ last_calls' = <<SceneCall("wait", duration, orig_raises)>>
    /\ ops' = ops + 1
    /\ UNCHANGED <<rest_of_clock, scene_play, scene_wait, dot_clock, stack, displays>>

\* display_text_safely(scene, text, wait_time=...); displays keeps, for each
\* call, the clock that was attached, its time before and after the call,
\* whether a with-block was open, and whether the call returned.
Display ==
    /\ ops < MaxOps
    /\ \E text \in Texts, wait_time \in Durations, raise_at \in 0..3 :
           LET res == display_text_safely(clocks, scene_play, scene_wait, dot_clock,
                                          text, wait_time, raise_at)
           IN  /\ clocks' = res.clocks
               /\ displays' = Append(displays,
                      [clock |-> dot_clock,
                       began |-> IF dot_clock = NoClock THEN 0
                                 ELSE clocks[dot_clock].current_time,
                       finished |-> IF dot_clock = NoClock THEN 0
                                    ELSE res.clocks[dot_clock].current_time,
                       text |-> text,
                       wait_time |-> wait_time,
                       inside |-> stack # <<>>,
                       returned |-> ~res.raised])
               /\ last_calls' = SubSeq(<<SceneCall("play", NoKwarg, raise_at = 1),
                                         SceneCall("wait", wait_time, raise_at = 2),
                                         SceneCall("play", NoKwarg, raise_at = 3)>>,
                                       1, IF raise_at = 0 THEN 3 ELSE raise_at)
    /\ ops' = ops + 1
    /\ UNCHANGED <<rest_of_clock, scene_play, scene_wait, dot_clock, stack>>

NextClock == Enter \/ Exit \/ Play \/ Wait \/ Display

SpecClock == InitClock /\ [][NextClock]_vars

(***************************************************************************)
(* SubtitleTrack.add_caption on any Python float: the same lines 1206-1209  *)
(* over times that may be NaN, for which end_s <= start_s is false.         *)
(***************************************************************************)
add_caption_float(items, start_s, end_s, text) ==
    LET e == IF FLeq(end_s, start_s) THEN FAdd(start_s, MinCue) ELSE end_s
    IN  Append(items, <<start_s, e, text>>)

FloatTimes == {Finite(0), Finite(1000), Finite(2400), NaN}

InitSrtFloat == InitSrt

AddCaptionFloat ==
    /\ srt_pc = "adding"
    /\ Len(_items) < MaxCues
    /\ \E start_s \in FloatTimes, end_s \in FloatTimes, text \in Texts :
           _items' = add_caption_float(_items, start_s, end_s, text)
    /\ UNCHANGED <<captions, min_gap, sched_vars, narr_vars, fit_vars, load_vars, clk_vars, phase_vars, reg_vars,
                   srt_pc, srt>>

NextSrtFloat == AddCaptionFloat

SpecSrtFloat == InitSrtFloat /\ [][NextSrtFloat]_vars

(***************************************************************************)
(* A scene with objects on it, one Phase around a body that adds and        *)
(* removes objects, up to MaxSceneOps additions and removals in all.        *)
(***************************************************************************)
MaxSceneOps == 3
Mobjects == {1, 2, 3}

OnScene(mobs) == {mobs[i] : i \in 1..Len(mobs)}

InitPhase ==
    /\ captions = <<>>
    /\ min_gap = DefaultMinGap
    /\ sched_pc = "idle"
    /\ result = <<>>
    /\ NarrIdle
    /\ fs = {}
    /\ FitIdle
    /\ LoadIdle
    /\ SrtIdle
    /\ ClockIdle
    /\ RegIdle
    /\ mobjects = <<>>
    /\ phase \in {new_phase(dim, clear) : dim \in BOOLEAN, clear \in BOOLEAN}
    /\ before = {}
    /\ created = {}
    /\ at_exit = {}
    /\ faded = {}
    /\ scene_ops = 0

rest_of_phase == <<captions, min_gap, sched_vars, narr_vars, fit_vars, load_vars, srt_vars,
                   clk_vars, reg_vars>>

\* scene.add(m), before the phase or in its body.
SceneAdd ==
    /\ phase.state # "exited"
    /\ scene_ops < MaxSceneOps
    /\ \E m \in Mobjects :
           /\ mobjects' = scene_add(mobjects, m)
           /\ created' = IF phase.state = "active" /\ m \notin before
                         THEN created \cup {m} ELSE created
    /\ scene_ops' = scene_ops + 1
    /\ UNCHANGED <<rest_of_phase, phase, before, at_exit, faded>>

\* scene.remove(m), before the phase or in its body.
SceneRemove ==
    /\ phase.state # "exited"
    /\ scene_ops < MaxSceneOps
    /\ \E m \in OnScene(mobjects) : mobjects' = scene_remove(mobjects, m)
    /\ scene_ops' = scene_ops + 1
    /\ UNCHANGED <<rest_of_phase, phase, before, created, at_exit, faded>>

\* Phase.__enter__, lines 395-408.
PhaseEnter ==
    /\ phase.state = "new"
    /\ phase' = [phase EXCEPT !.state = "active",
                              !.enter_index = Len(mobjects),
                              !.dim_rect = IF phase.dim THEN DimRect ELSE NoRect]
    /\ mobjects' = IF phase.dim THEN play_fade_in(mobjects, DimRect) ELSE mobjects
    /\ before' = OnScene(mobjects)
    /\ UNCHANGED <<rest_of_phase, created, at_exit, faded, scene_ops>>

\* Phase.__exit__, lines 410-421.
PhaseExit ==
    /\ phase.state = "active"
    /\ LET undimmed == IF phase.dim_rect # NoRect
                       THEN play_fade_out(mobjects, <<phase.dim_rect>>)
                       ELSE mobjects
           cleared == IF phase.clear_on_exit
                      THEN new_objects(undimmed, phase.enter_index)
                      ELSE <<>>
       IN  /\ mobjects' = play_fade_out(undimmed, cleared)
           /\ faded' = OnScene(cleared)
           /\ at_exit' = OnScene(mobjects) \ {DimRect}
    /\ phase' = [phase EXCEPT !.state = "exited", !.dim_rect = NoRect]
    /\ UNCHANGED <<rest_of_phase, before, created, scene_ops>>

NextPhase == SceneAdd \/ SceneRemove \/ PhaseEnter \/ PhaseExit

SpecPhase == InitPhase /\ [][NextPhase]_vars

(***************************************************************************)
(* The chain registry in one process: any files at the default and at a     *)
(* custom path, up to MaxLoads calls with or without a path.                *)
(***************************************************************************)
MaxLoads == 2
RegContents == {"missing", "garbage", "null", "{}", "registry A", "registry B"}

InitRegistry ==
    /\ captions = <<>>
    /\ min_gap = DefaultMinGap
    /\ sched_pc = "idle"
    /\ result = <<>>
    /\ NarrIdle
    /\ fs = {}
    /\ FitIdle
    /\ LoadIdle
    /\ SrtIdle
    /\ ClockIdle
    /\ PhaseIdle
    /\ _CHAIN_REGISTRY_CACHE = NoneValue
    /\ reg_files \in [RegPaths -> RegContents]
    /\ reg_log = <<>>

LoadChainRegistry ==
    /\ Len(reg_log) < MaxLoads
    /\ \E path \in {NoPathArg, "custom.json"} :
           LET res == load_chain_registry(_CHAIN_REGISTRY_CACHE, reg_files, path)
           IN  /\ _CHAIN_REGISTRY_CACHE' = res.cache
               /\ reg_log' = Append(reg_log, [path |-> path, returned |-> res.returned,
                                              read |-> res.read])
    /\ UNCHANGED <<captions, min_gap, sched_vars, narr_vars, fit_vars, load_vars, srt_vars,
                   clk_vars, phase_vars, reg_files>>

NextRegistry == LoadChainRegistry

SpecRegistry == InitRegistry /\ [][NextRegistry]_vars

(***************************************************************************)
(* Vocabulary of the properties.  StableOrder is the order the             *)
(* specification asks for, stated without reference to any sorting         *)
(* procedure: position i of the schedule is input StableOrder(caps)[i].    *)
(***************************************************************************)
StableOrder(caps) ==
    LET n == Len(caps)
    IN  CHOOSE p \in [1..n -> 1..n] :
            /\ \A i, j \in 1..n : i # j => p[i] # p[j]
            /\ \A i, j \in 1..n :
                   i < j => \/ caps[p[i]][1] < caps[p[j]][1]
                            \/ caps[p[i]][1] = caps[p[j]][1] /\ p[i] < p[j]

\* Section 4.1 of the specification, as a closed form over positions.
RefSchedule(caps, gap) ==
    LET n == Len(caps)
        p == StableOrder(caps)
        o == [i \in 1..n |-> caps[p[i]]]
        dur == [i \in 1..n |-> Max(400, o[i][2] - o[i][1])]
        new_start[i \in 1..n] ==
            IF i = 1 THEN Max(o[1][1], Max(0, o[1][1]))
            ELSE Max(o[i][1], new_start[i - 1] + dur[i - 1] + gap)
    IN  [i \in 1..n |-> <<new_start[i], new_start[i] + dur[i], o[i][3]>>]

ScenarioCaptions == <<(<<0, 1000, "A">>), (<<500, 1500, "B">>)>>
ScenarioSchedule == <<(<<0, 1000, "A">>), (<<1100, 2100, "B">>)>>

\* Adjacent captions, taken in time order, leave min_gap between them.
RespectsGapInTimeOrder(caps, gap) ==
    LET p == StableOrder(caps)
    IN  \A i \in 1..(Len(caps) - 1) : caps[p[i]][2] + gap <= caps[p[i + 1]][1]

\* A list that already is a schedule: in list order, from time 0 on, every
\* caption at least 0.4 s long, min_gap between neighbours.
IsSchedule(caps, gap) ==
    /\ \A i \in 1..Len(caps) : caps[i][2] - caps[i][1] >= 400
    /\ caps # <<>> => caps[1][1] >= 0
    /\ \A i \in 1..(Len(caps) - 1) : caps[i][2] + gap <= caps[i + 1][1]

\* C1: the list _schedule_non_overlapping returns is sorted by start,
\* non-decreasing, and every adjacent pair satisfies
\* prev.end + min_gap <= next.start.
C1_SortedNoOverlap ==
    sched_pc = "done" =>
        \A i \in 1..(Len(result) - 1) :
            /\ result[i][1] <= result[i + 1][1]
            /\ result[i][2] + min_gap <= result[i + 1][1]

\* C1 witness: two overlapping captions went through the scheduler with a
\* positive gap and the second one sits exactly at prev.end + min_gap.
C1_Witness ==
    /\ sched_pc = "done"
    /\ min_gap > 0
    /\ Len(captions) = 2
    /\ captions[1][2] > captions[2][1]
    /\ captions[1][1] < captions[2][1]
    /\ result[2][1] = result[1][2] + min_gap

\* C2: the caption emitted for an input caption (start, end, text) lasts
\* max(0.4, end - start), pushed forward or not.
C2_DurationPreserved ==
    sched_pc = "done" =>
        /\ Len(result) = Len(captions)
        /\ \A i \in 1..Len(result) :
               LET c == captions[StableOrder(captions)[i]]
               IN  result[i][2] - result[i][1] = Max(400, c[2] - c[1])

\* C2 witness: a caption shorter than 0.4 s was pushed forward.
C2_Witness ==
    /\ sched_pc = "done"
    /\ \E i \in 1..Len(result) :
           LET c == captions[StableOrder(captions)[i]]
           IN  /\ c[2] - c[1] < 400
               /\ result[i][1] > c[1]
               /\ result[i][2] - result[i][1] = 400
    /\ \E i \in 1..Len(result) :
           LET c == captions[StableOrder(captions)[i]]
           IN  /\ c[2] - c[1] > 400
               /\ result[i][1] > c[1]

\* C3 as stated: a list of captions of the data model (start >= 0,
\* end > start) that, taken in time order, do not overlap and respect
\* min_gap is returned unchanged.
C3_Original ==
    (/\ sched_pc = "done"
     /\ \A i \in 1..Len(captions) : captions[i][1] >= 0 /\ captions[i][2] > captions[i][1]
     /\ RespectsGapInTimeOrder(captions, min_gap)) =>
        result = captions

\* C3 as amended: a list that is in time order, starts at or after 0, has no
\* caption shorter than 0.4 s and leaves min_gap between neighbours is
\* returned unchanged.
C3_Idempotent ==
    (sched_pc = "done" /\ IsSchedule(captions, min_gap)) => result = captions

\* C3 witness: a two-caption schedule with more room than min_gap between
\* its captions came back as it went in.
C3_Witness ==
    /\ sched_pc = "done"
    /\ Len(captions) = 2
    /\ IsSchedule(captions, min_gap)
    /\ captions[1][2] + min_gap < captions[2][1]
    /\ result = captions

\* C4: _schedule_non_overlapping computes the reference schedule of section
\* 4.1 (stable order by start, cursor from max(0, first.start), start pushed
\* to the cursor, duration floored at 0.4 s, cursor advanced by min_gap); the
\* empty list gives the empty list and the scenario of section 8 gives
\* [(0,1,A),(1.1,2.1,B)].
C4_EqualsReference ==
    sched_pc = "done" =>
        /\ result = RefSchedule(captions, min_gap)
        /\ captions = <<>> => result = <<>>
        /\ (captions = ScenarioCaptions /\ min_gap = 100) => result = ScenarioSchedule

\* C4 witness: three captions, two of them with equal starts, were scheduled
\* and the later one of the equal pair was pushed behind the earlier one.
C4_Witness ==
    /\ sched_pc = "done"
    /\ Len(captions) = 3
    /\ captions[2][1] = captions[3][1]
    /\ captions[2][3] # captions[3][3]
    /\ captions[1][1] < captions[2][1]
    /\ result[2][3] = captions[2][3]
    /\ result[3][1] = result[2][2] + min_gap

\* C4 witness of the scenario is part of the reachable states as well.
C4_ScenarioReached ==
    /\ sched_pc = "done"
    /\ captions = ScenarioCaptions
    /\ min_gap = 100
    /\ result = ScenarioSchedule

\* C5: one output caption per input caption, same text, start never earlier
\* than the input's start.
C5_ForwardOnly ==
    sched_pc = "done" =>
        /\ Len(result) = Len(captions)
        /\ \A i \in 1..Len(result) :
               LET c == captions[StableOrder(captions)[i]]
               IN  /\ result[i][3] = c[3]
                   /\ result[i][1] >= c[1]

\* C5 witness: out-of-order input with different texts, one caption kept in
\* place with room before it and one shifted forward.
C5_Witness ==
    /\ sched_pc = "done"
    /\ Len(captions) = 2
    /\ captions[1][1] > captions[2][1]
    /\ captions[1][3] # captions[2][3]
    /\ result[1][3] = captions[2][3]
    /\ result[1][1] > captions[2][1]
    /\ result[2][1] = captions[1][1]
    /\ result[2][1] > result[1][2] + min_gap

(***************************************************************************)
(* Properties of the narration pipeline.                                   *)
(***************************************************************************)
\* auto_narrate_and_subtitle has returned a path.
AutoReturned == pc \in {"bgm", "done"}

StepsInvoked == {calls[i].step : i \in 1..Len(calls)}

C7_NeverRaises == InputVideo \in fs => pc # "raised"

\* C8: when input_video exists, the path the narration call returns names a
\* file that exists, whichever of mix, mux, burn-in and music mix failed.
C8_ReturnedArtifactExists ==
    (pc = "done" /\ InputVideo \in fs) => ret \in fs

\* C9: a caption whose synthesis wrote no audio file is no track of the mix,
\* and when no caption was synthesized neither mix nor mux is invoked.
C9_SoftFailNoTrack ==
    /\ \A i \in 1..Len(tts_files) : tts_files[i][2] \in fs
    /\ (\A i \in 1..Len(tts_files) : Mp3Path(i - 1) \notin fs) =>
           StepsInvoked \cap {"mix", "mux"} = {}

\* C10: narrate_from_captions called with its default arguments
\* (allow_time_push and min_gap_s left alone) writes the caller's timings to
\* the subtitle track and uses the caller's starts as audio offsets (looked
\* at once the subtitle file is saved and every track is placed).
C10_DefaultsUseCaptionsAsGiven ==
    (/\ entry = "narrate_from_captions"
     /\ allow_time_push
     /\ min_gap = DefaultMinGap
     /\ pc \notin {"idle", "resequence", "subtitles"}
     /\ Len(tts_files) = Len(ordered)) =>
        /\ Len(track) = Len(captions)
        /\ Len(tts_files) = Len(captions)
        /\ \A i \in 1..Len(captions) :
               /\ track[i][1] = captions[i][1]
               /\ track[i][2] = captions[i][2]
               /\ tts_files[i][1] = captions[i][1]

\* Every caption has its cue in the track and its audio track in tts_files.
TracksPlaced ==
    /\ pc \notin {"idle", "resequence", "subtitles"}
    /\ Len(tts_files) = Len(ordered)

RatEq(a, b) == a[1] * b[2] = b[1] * a[2]
RatLeq(a, b) == a[1] * b[2] <= b[1] * a[2]

RECURSIVE RatProduct(_)
RatProduct(parts) ==
    IF parts = <<>> THEN <<1, 1>>
    ELSE LET rest == RatProduct(Tail(parts))
         IN  <<Head(parts)[1] * rest[1], Head(parts)[2] * rest[2]>>

\* The ratio R the stretch was asked for; the stretch filter was built only
\* if the source was probed with a positive duration.
FitStretched == fit_pc = "done" /\ fit_res.ffmpeg
FitR == <<fit_args.original, fit_args.target>>
FitOutside == RatLess(FitR, <<1, 2>>) \/ RatLess(<<2, 1>>, FitR)

\* C12: for R = original / target outside [0.5, 2.0] the stages multiply to
\* R, and each ratio written to the filter is its stage to six decimals.
C12_ProductIsRatio ==
    (FitStretched /\ FitOutside) =>
        /\ RatEq(RatProduct(fit_res.parts), FitR)
        /\ Len(fit_res.filter) = Len(fit_res.parts)
        /\ \A i \in 1..Len(fit_res.parts) :
               LET n == fit_res.parts[i][1]
                   d == fit_res.parts[i][2]
                   diff == fit_res.filter[i] * d - 1000000 * n
               IN  2 * diff <= d /\ -2 * diff <= d

\* C12 witness: R = 1/12 was decomposed into three stages of 0.5 and the
\* remainder 2/3, written as 0.666667.
C12_Witness ==
    /\ FitStretched
    /\ fit_args.original = 1
    /\ fit_args.target = 12
    /\ Len(fit_res.parts) = 4
    /\ fit_res.filter = <<500000, 500000, 500000, 666667>>

\* C13: for every positive R the stage list has every stage in [0.5, 2.0],
\* every stage but the last is 2.0 when R > 2 and 0.5 when R < 0.5 (there is
\* none otherwise), the last stage is what remains of R, and R = 5.0 gives
\* [2.0, 2.0, 1.25].
C13_StageList ==
    FitStretched =>
        LET parts == fit_res.parts
            n == Len(parts)
        IN  /\ n >= 1
            /\ \A i \in 1..n : RatLeq(<<1, 2>>, parts[i]) /\ RatLeq(parts[i], <<2, 1>>)
            /\ \A i \in 1..(n - 1) :
                   /\ RatLess(<<2, 1>>, FitR) => parts[i] = <<2, 1>>
                   /\ RatLess(FitR, <<1, 2>>) => parts[i] = <<1, 2>>
            /\ ~FitOutside => n = 1
            /\ RatEq(<<parts[n][1] * RatProduct(SubSeq(parts, 1, n - 1))[1],
                       parts[n][2] * RatProduct(SubSeq(parts, 1, n - 1))[2]>>, FitR)
            /\ RatEq(FitR, <<5, 1>>) =>
                   /\ n = 3
                   /\ parts[1] = <<2, 1>>
                   /\ parts[2] = <<2, 1>>
                   /\ RatEq(parts[3], <<5, 4>>)

\* C13 witness: R = 10 / 2 = 5.0 produced [2.0, 2.0, 1.25].
C13_Witness ==
    /\ FitStretched
    /\ fit_args.original = 10
    /\ fit_args.target = 2
    /\ fit_res.filter = <<2000000, 2000000, 1250000>>

\* The calls of one step that the orchestrator's fit of caption idx made.
FitCalls(idx, step) ==
    {j \in 1..Len(calls) : calls[j].step = step /\ calls[j].src = Mp3Path(idx)}

ProbedZero(idx) == \E j \in FitCalls(idx, "probe") : calls[j].aux = "zero"

\* One track per caption handled so far, at the caption's start, and nothing
\* raised before the mux.
OneTrackPerCaption ==
    /\ pc \notin {"idle", "resequence", "subtitles"} =>
           /\ Len(tts_files) <= Len(ordered)
           /\ \A i \in 1..Len(tts_files) :
                  /\ tts_files[i][1] = ordered[i][1]
                  /\ tts_files[i][2] \in {Mp3Path(i - 1), FitPath(i - 1)}
    /\ pc \in {"mux", "finish", "bgm", "done", "raised"} =>
           Len(tts_files) = Len(ordered)
    /\ pc = "raised" => "mux" \in StepsInvoked

Loaded == load_pc = "done" /\ ~load_res.raised

\* What the loaders are specified to make of one row whose timestamps parse.
ExpectedRow(row) ==
    LET s == float_of(row.start).val
        e == float_of(row.end).val
    IN  IF FLeq(e, s) THEN <<s, FAdd(s, LoadMinDur), row.text>>
        ELSE <<s, e, row.text>>

\* C15: a loader returns only captions with non-empty text and end > start;
\* a row with end <= start comes back with end = start + 0.4, a row with
\* empty text is skipped, every other row keeps its start and end.
C15_LoadedCaptionsValid ==
    Loaded =>
        /\ \A i \in 1..Len(load_res.captions) :
               /\ load_res.captions[i][3] # ""
               /\ FLess(load_res.captions[i][1], load_res.captions[i][2])
        /\ LET kept == SelectSeq(load_rows,
                                 LAMBDA row : /\ row.shape \in {"list", "dict"}
                                              /\ ~float_of(row.start).raised
                                              /\ ~float_of(row.end).raised
                                              /\ row.text # "")
           IN  load_res.captions = [i \in 1..Len(kept) |-> ExpectedRow(kept[i])]

WellFormed(row) == ~float_of(row.start).raised /\ ~float_of(row.end).raised

\* C16: a row with an unparsable start or end is passed over in silence: the
\* loader raises nothing and returns what it returns for the file without
\* the malformed rows.
C16_MalformedRowSkipped ==
    load_pc = "done" =>
        /\ ~load_res.raised
        /\ LET good == SelectSeq(load_rows, WellFormed)
           IN  load_res.captions =
                   IF load_fmt = "json" THEN load_captions_from_json(good).captions
                   ELSE load_captions_from_csv(good).captions

(***************************************************************************)
(* Properties of the subtitle track.                                       *)
(***************************************************************************)
\* Reading HH:MM:SS,mmm back: the milliseconds the four numbers stand for.
parse_ts(ts) == ts[1] * 3600000 + ts[2] * 60000 + ts[3] * 1000 + ts[4]

\* C17: exporting the captions with to_srt and reading the timestamps back
\* gives each caption's start and end again, to the millisecond.
C17_RoundTrip ==
    srt_pc = "exported" =>
        \A i \in 1..Len(srt) :
            /\ parse_ts(srt[i].start) = sorted(_items)[i][1]
            /\ parse_ts(srt[i].end) = sorted(_items)[i][2]

\* C18: to_srt emits one cue per added caption, in ascending order of start
\* with captions of equal start in insertion order, numbered 1, 2, ..., n.
C18_CuesOrderedAndNumbered ==
    srt_pc = "exported" =>
        /\ Len(srt) = Len(_items)
        /\ \A i \in 1..Len(srt) :
               /\ srt[i].idx = i
               /\ srt[i] = cue(i, _items[StableOrder(_items)[i]])
        /\ \A i \in 1..(Len(srt) - 1) :
               parse_ts(srt[i].start) <= parse_ts(srt[i + 1].start)

\* C18 witness: two captions added later-first were exported.
C18_Witness ==
    /\ srt_pc = "exported"
    /\ Len(_items) = 2
    /\ _items[1][1] > _items[2][1]
    /\ srt[1].text = _items[2][3]

(***************************************************************************)
(* The caller's caption list.                                              *)
(***************************************************************************)
\* C19: the scheduler and the orchestrator leave the caller's caption list
\* as it was: no step of a call changes its elements or their order.
C19_CallerListUnchanged == [][captions' = captions]_vars

\* C19 witness: the orchestrator, called directly with sequential=True on a
\* list that is not in start order, returned; its own list was reordered.
C19_Witness ==
    /\ pc = "done"
    /\ entry = "auto_narrate_and_subtitle"
    /\ sequential
    /\ Len(captions) = 2
    /\ captions[1][1] > captions[2][1]
    /\ ordered[1][3] = captions[2][3]

(***************************************************************************)
(* Properties of the playback clock.                                       *)
(***************************************************************************)
\* The displays that returned while clock c was the scene's _dot_clock.
DisplaysUnder(c) ==
    SelectSeq(displays, LAMBDA d : d.clock = c /\ d.returned)

LogMatchesDisplays ==
    \A c \in 1..MaxClocks :
        LET shown == DisplaysUnder(c)
        IN  clocks[c].captions =
                [i \in 1..Len(shown) |-> <<shown[i].began, shown[i].finished, shown[i].text>>]

C21_SequentialIsScheduler ==
    (/\ entry = "auto_narrate_and_subtitle"
     /\ sequential
     /\ pc \notin {"idle", "resequence"}) =>
        ordered = _schedule_non_overlapping(captions, min_gap)

\* The steps of the pipeline in the order they were invoked.
MainSteps == {"srt", "tts", "mix", "mux", "burn"}

StepOrder ==
    LET main == SelectSeq(calls, LAMBDA c : c.step \in MainSteps)
    IN  [i \in 1..Len(main) |-> main[i].step]

CallsOf(step) == SelectSeq(calls, LAMBDA c : c.step = step)

C24_MixGraph ==
    \A j \in 1..Len(calls) :
        calls[j].step = "mix" =>
            LET graph == calls[j].aux
                n == Len(tts_files)
            IN  /\ Len(calls[j].src) = n
                /\ Len(graph.filters) = n
                /\ graph.inputs = n
                /\ graph.amix_inputs = [i \in 1..n |-> i - 1]
                /\ \A i \in 1..n :
                       LET offset == tts_files[i][1]
                           delay == IF offset < 0 THEN 0 ELSE offset
                       IN  /\ calls[j].src[i] = tts_files[i][2]
                           /\ graph.filters[i].input = i - 1
                           /\ graph.filters[i].label = i - 1
                           /\ graph.filters[i].left = delay
                           /\ graph.filters[i].right = delay

\* C24 witness: a mix of two tracks, one at a negative offset and one at a
\* positive offset, was invoked.
C24_Witness ==
    /\ "mix" \in StepsInvoked
    /\ Len(tts_files) = 2
    /\ \E i, k \in 1..2 : tts_files[i][1] < 0 /\ tts_files[k][1] > 0

\* C25: whatever start and end add_caption is called with, every stored
\* caption has end > start: end = start + 0.01 when it was given
\* end <= start, the given end otherwise.
C25_StoredEndAfterStart ==
    \A i \in 1..Len(_items) : FLess(_items[i][1], _items[i][2])

\* The clocks whose with-block is open.
Active == {stack[i] : i \in 1..Len(stack)}

\* What one call counts for: the run_time keyword of a play, 1.0 when there
\* is none, the duration of a wait, nothing when the call raised.
Amount(call) ==
    IF call.raised THEN 0
    ELSE IF call.kind = "wait" THEN call.arg
    ELSE IF call.arg = NoKwarg THEN 1000 ELSE call.arg

RECURSIVE Advance(_)
Advance(made) == IF made = <<>> THEN 0 ELSE Amount(Head(made)) + Advance(Tail(made))

\* C26: every step adds to the current_time of each active clock the
\* run_time keyword (1.0 when absent) of each scene.play call and the
\* duration of each scene.wait call it made, and nothing for a call that
\* raised, so that current_time is the sum over the calls since __enter__;
\* it does not decrease when no wait of the step has a negative duration.
C26_ClockAdvance ==
    [][\A c \in Active :
           /\ clocks'[c].current_time = clocks[c].current_time + Advance(last_calls')
           /\ (\A i \in 1..Len(last_calls') :
                   last_calls'[i].kind = "wait" => last_calls'[i].arg >= 0)
              => clocks'[c].current_time >= clocks[c].current_time]_vars

\* C26 witness: under an active clock a play with run_time 0.7 was counted
\* and then a call raised and was not.
C26_Witness ==
    /\ stack = <<1>>
    /\ clocks[1].current_time = 700
    /\ ops = 2
    /\ Len(last_calls) = 1
    /\ last_calls[1].raised

\* C27: __exit__ leaves scene.play and scene.wait as they were before the
\* clock's __enter__ (the wrapper of the enclosing clock, or the scene's own
\* methods), leaves the scene without _dot_clock, and from then on no call
\* changes the clock's current_time.
C27_ExitRestores ==
    [][/\ Len(stack') < Len(stack) =>
              LET previous == IF stack' = <<>> THEN Original ELSE stack'[Len(stack')]
              IN  /\ scene_play' = previous
                  /\ scene_wait' = previous
                  /\ dot_clock' = NoClock
       /\ \A c \in 1..MaxClocks :
              clocks[c].state = "exited" =>
                  clocks'[c].current_time = clocks[c].current_time]_vars

\* C27 witness: a clock that counted a call was exited, and the scene made
\* another call, which returned, afterwards.
C27_Witness ==
    /\ clocks[1].state = "exited"
    /\ clocks[1].current_time > 0
    /\ stack = <<>>
    /\ scene_play = Original
    /\ last_calls # <<>>
    /\ ~last_calls[1].raised

\* C28: in any properly nested sequence of with-blocks, while at least one
\* block is open the scene has a _dot_clock, so that every display made
\* inside an open block that returns is logged by some clock; after the
\* outermost exit scene.play and scene.wait are the scene's own methods.
C28_NestedAttached ==
    /\ stack # <<>> => dot_clock # NoClock
    /\ \A i \in 1..Len(displays) :
           displays[i].returned => displays[i].clock # NoClock \/ ~displays[i].inside
    /\ stack = <<>> => scene_play = Original /\ scene_wait = Original

(***************************************************************************)
(* Properties of Phase and of the chain registry.                          *)
(***************************************************************************)
\* C29: on exit of a clear_on_exit phase exactly the objects the body added
\* (and left on the scene) are faded out, and no object that was on the
\* scene before the phase, whatever the body added and removed; the dim
\* rectangle of a dim phase is off the scene after exit.
C29_PhaseClearsCreated ==
    phase.state = "exited" =>
        /\ phase.clear_on_exit =>
               /\ faded = created \cap at_exit
               /\ faded \cap before = {}
        /\ phase.dim => DimRect \notin OnScene(mobjects)

\* C30: once the first load_chain_registry call has returned, every later
\* call returns what the first returned, whatever its path argument, and
\* reads no file.
C30_LoadedOnce ==
    \A i \in 2..Len(reg_log) :
        /\ reg_log[i].returned = reg_log[1].returned
        /\ reg_log[i].read = <<>>

=============================================================================
